---- MODULE Spec2Model ----
(***************************************************************************)
(* Model of the bet-buddies daily sync job                                 *)
(*   src/scripts/daily-sync/index.ts  (job, normalizer, settlement)        *)
(*   src/unnamed/part_001             (date-utils: window bounds)          *)
(*                                                                         *)
(* Encodings                                                               *)
(*   - a nullable value is a sequence: Null == << >>, a present value x is *)
(*     << x >>;                                                            *)
(*   - scores and line values are counted in half points, so that the     *)
(*     half-point lines the provider quotes (-3.5, 44.5) are integers:     *)
(*     a score of 20 is 40, a spread of -3 is -6, a spread of -3.5 is -7.  *)
(*     Sums, differences and comparisons are the code's, on these units.   *)
(***************************************************************************)
EXTENDS Integers, Sequences, FiniteSets, TLC

Null == << >>
Some(x) == << x >>
IsNull(o) == o = Null
Val(o) == o[1]

\* a whole number of points, in half points
Pt(n) == n + n

(***************************************************************************)
(* Bounds                                                                  *)
(***************************************************************************)
MaxScore == 3
MaxLine == 3

\* final scores: 0 .. MaxScore points
Scores == { Pt(n) : n \in 0..MaxScore }
\* line values: every half point in -MaxLine .. MaxLine points, or null
LineValues == { Some(l) : l \in (0 - Pt(MaxLine))..Pt(MaxLine) } \cup { Null }

TeamIds == { "T1", "T2" }
BetTypes == { "moneyline", "spread", "over_under", "parlay" }
Selections == TeamIds \cup { "over", "under", "T9" }

(***************************************************************************)
(* Bet Settlement Engine: calculateBetResult                               *)
(***************************************************************************)
\* JavaScript !v for a value of type number | null: null and 0 are falsy
Falsy(v) == IsNull(v) \/ Val(v) = 0

\* a tie counted as a win
MoneylineTieWins(selection, homeTeamId, awayTeamId, homeScore, awayScore) ==
  IF selection = homeTeamId THEN Some(homeScore >= awayScore)
  ELSE IF selection = awayTeamId THEN Some(awayScore >= homeScore)
  ELSE Null

Moneyline(selection, homeTeamId, awayTeamId, homeScore, awayScore) ==
  LET selectedHome == selection = homeTeamId
      selectedAway == selection = awayTeamId
  IN  IF selectedHome THEN Some(homeScore > awayScore)
      ELSE IF selectedAway THEN Some(awayScore > homeScore)
      ELSE Null

Spread(selection, homeTeamId, awayTeamId, homeScore, awayScore, spreadValue) ==
  IF Falsy(spreadValue) THEN Null
  ELSE LET selectedHome == selection = homeTeamId
           selectedAway == selection = awayTeamId
           homeScoreWithSpread == homeScore + Val(spreadValue)
           awayScoreWithSpread == awayScore - Val(spreadValue)
       IN  IF selectedHome THEN Some(homeScoreWithSpread > awayScore)
           ELSE IF selectedAway THEN Some(awayScoreWithSpread > homeScore)
           ELSE Null

\* a push counted as a win for the over
OverUnderPushWins(selection, homeScore, awayScore, totalValue) ==
  IF Falsy(totalValue) THEN Null
  ELSE IF selection = "over"
         THEN Some(homeScore + awayScore >= Val(totalValue))
       ELSE IF selection = "under"
         THEN Some(homeScore + awayScore < Val(totalValue))
       ELSE Null

OverUnder(selection, homeScore, awayScore, totalValue) ==
  IF Falsy(totalValue) THEN Null
  ELSE LET totalScore == homeScore + awayScore
           selectedOver == selection = "over"
           selectedUnder == selection = "under"
       IN  IF selectedOver THEN Some(totalScore > Val(totalValue))
           ELSE IF selectedUnder THEN Some(totalScore < Val(totalValue))
           ELSE Null

calculateBetResult(betType, selection, homeTeamId, awayTeamId, homeScore, awayScore, spreadValue, totalValue) ==
  IF betType = "moneyline"
    THEN Moneyline(selection, homeTeamId, awayTeamId, homeScore, awayScore)
  ELSE IF betType = "spread"
    THEN Spread(selection, homeTeamId, awayTeamId, homeScore, awayScore, spreadValue)
  ELSE IF betType = "over_under"
    THEN OverUnder(selection, homeScore, awayScore, totalValue)
  ELSE Null

(***************************************************************************)
(* Date-Window Calculator (date-utils)                                     *)
(*                                                                         *)
(* A Date is [day |-> days since 1970-01-01, ms |-> millisecond of the     *)
(* UTC day]: its time value is day * DAY_IN_MS + ms.  An ISO string        *)
(* "YYYY-MM-DDTHH:mm:ss.sssZ" is the record of its seven numeric fields.   *)
(***************************************************************************)
DAY_IN_MS == 24 * 60 * 60 * 1000

\* proleptic Gregorian calendar: day number of year y, month m (1..12), and
\* day of month d (d may lie outside the month, as Date.UTC allows)
DaysFromCivil(y, m, d) ==
  LET yy  == IF m <= 2 THEN y - 1 ELSE y
      era == yy \div 400
      yoe == yy - era * 400
      mp  == IF m > 2 THEN m - 3 ELSE m + 9
      doy == (153 * mp + 2) \div 5 + d - 1
      doe == yoe * 365 + yoe \div 4 - yoe \div 100 + doy
  IN  era * 146097 + doe - 719468

\* calendar date [y, m (1..12), d] of a day number
CivilFromDays(z) ==
  LET zz  == z + 719468
      era == zz \div 146097
      doe == zz - era * 146097
      yoe == (doe - doe \div 1460 + doe \div 36524 - doe \div 146096) \div 365
      doy == doe - (365 * yoe + yoe \div 4 - yoe \div 100)
      mp  == (5 * doy + 2) \div 153
      d   == doy - (153 * mp + 2) \div 5 + 1
      m   == IF mp < 10 THEN mp + 3 ELSE mp - 9
  IN  [ y |-> yoe + era * 400 + (IF m <= 2 THEN 1 ELSE 0), m |-> m, d |-> d ]

\* new Date(date.getTime() + k), 0 <= k
AddMs(date, k) ==
  [ day |-> date.day + (date.ms + k) \div DAY_IN_MS,
    ms  |-> (date.ms + k) % DAY_IN_MS ]

getUTCDay(date) == (date.day + 4) % 7        \* 1970-01-01 was a Thursday (4)
getUTCFullYear(date) == CivilFromDays(date.day).y
getUTCMonth(date) == CivilFromDays(date.day).m - 1      \* 0 = January
getUTCDate(date) == CivilFromDays(date.day).d

\* new Date(Date.UTC(year, month (0-based), dt, hours, 0, 0, 0))
DateUTC(year, month, dt, hours) ==
  [ day |-> DaysFromCivil(year, month + 1, 1) + dt - 1,
    ms  |-> hours * 60 * 60 * 1000 ]

\* a <= b on Dates
DateLeq(a, b) == a.day < b.day \/ (a.day = b.day /\ a.ms <= b.ms)

toISOString(date) ==
  LET c == CivilFromDays(date.day)
  IN  [ year |-> c.y, month |-> c.m, day |-> c.d,
        hour   |-> date.ms \div 3600000,
        minute |-> (date.ms \div 60000) % 60,
        second |-> (date.ms \div 1000) % 60,
        ms     |-> date.ms % 1000 ]

\* twelve hours instead of twenty-four
get12HoursFromDate(date) == toISOString(AddMs(date, 12 * 60 * 60 * 1000))

get24HoursFromDate(date) ==
  LET tomorrow == AddMs(date, DAY_IN_MS)
  IN  toISOString(tomorrow)

\* without the Tuesday/Wednesday fold
DaysUntilWednesdayNoFold(currentDay) == (3 - currentDay + 7) % 7

\* Thursday taken as the target day
DaysUntilThursday(currentDay) ==
  IF currentDay = 2 \/ currentDay = 3
    THEN ((4 - currentDay + 7) % 7) + 7
    ELSE (4 - currentDay + 7) % 7

\* daysUntilWednesday, after the Tuesday/Wednesday fold
DaysUntilWednesday(currentDay) ==
  LET targetDay == 3
      daysUntilWednesday == (targetDay - currentDay + 7) % 7
  IN  IF currentDay = 2 \/ currentDay = 3
        THEN daysUntilWednesday + 7
        ELSE daysUntilWednesday

getEndOfCurrentNFLWeek(date) ==
  LET currentDay == getUTCDay(date)
      daysUntilWednesday == DaysUntilWednesday(currentDay)
      candidate == DateUTC(getUTCFullYear(date), getUTCMonth(date),
                           getUTCDate(date) + daysUntilWednesday, 8)
      later == DateUTC(getUTCFullYear(date), getUTCMonth(date),
                       getUTCDate(date) + daysUntilWednesday + 7, 8)
  IN  IF DateLeq(candidate, date) THEN toISOString(later)
                                  ELSE toISOString(candidate)

\* new Date(isoString): the Date an ISO string denotes
ParseISO(iso) ==
  [ day |-> DaysFromCivil(iso.year, iso.month, iso.day),
    ms  |-> ((iso.hour * 60 + iso.minute) * 60 + iso.second) * 1000 + iso.ms ]

(***************************************************************************)
(* Bounds of the date inputs                                               *)
(***************************************************************************)
NumDays == 44
\* Monday 2025-11-24, the base date of the date-utils tests; the window runs
\* over the ends of November, December and the year
FirstDay == DaysFromCivil(2025, 11, 24)
\* a second window over the end of a leap February
LeapFirstDay == DaysFromCivil(2024, 2, 19)
LeapNumDays == 14
InputDays == (FirstDay .. FirstDay + NumDays - 1)
               \cup (LeapFirstDay .. LeapFirstDay + LeapNumDays - 1)
\* 00:00, 07:00, 07:59:59.999, 08:00, 08:00:00.001, 08:30, 09:00, 10:00,
\* 23:59:59.999
InputTimes == { 0, 25200000, 28799999, 28800000, 28800001, 30600000,
                32400000, 36000000, 86399999 }
InputDates == [ day : InputDays, ms : InputTimes ]

(***************************************************************************)
(* Odds Normalizer: transformEventToRow                                    *)
(*                                                                         *)
(* A JavaScript value the provider sends in a quote is a token: an         *)
(* unquoted token is a number, a quoted one a string, and "undefined" and  *)
(* "null" are themselves.  A JavaScript number is [nan, v]; prices are     *)
(* whole numbers, line values half points.                                 *)
(***************************************************************************)
Num(n) == [ nan |-> FALSE, v |-> n ]
NaN == [ nan |-> TRUE, v |-> 0 ]

\* the value tested as a condition: undefined, null, 0 and "" are falsy
Truthy(tok) == tok \notin { "undefined", "null", "0", "''" }

\* Number(value)
JSNumber(tok) ==
  CASE tok = "undefined" -> NaN
    [] tok = "null"      -> Num(0)
    [] tok = "0"         -> Num(0)
    [] tok = "-150"      -> Num(0 - 150)
    [] tok = "44.5"      -> Num(89)
    [] tok = "''"        -> Num(0)
    [] tok = "'0'"       -> Num(0)
    [] tok = "'+130'"    -> Num(130)
    [] tok = "'-110'"    -> Num(0 - 110)
    [] tok = "'-3.5'"    -> Num(0 - 7)
    [] tok = "'abc'"     -> NaN

OddIDs == { "points-home-game-ml-home", "points-away-game-ml-away",
            "points-home-game-sp-home", "points-away-game-sp-away",
            "points-all-game-ou-over", "points-all-game-ou-under" }

\* event.odds[oddID], Null when event.odds is missing or has no such key
OddOf(event, oddID) == IF event.hasOdds THEN event.odds[oddID] ELSE Null

\* the price a market's loop iteration assigns, or the initial null
BookOddsOf(event, oddID) ==
  LET odd == OddOf(event, oddID)
  IN  IF odd # Null /\ Truthy(Val(odd).bookOdds)
        THEN Some(JSNumber(Val(odd).bookOdds))
        ELSE Null

\* the line value assigned together with the home spread price
BookSpreadOf(event, oddID) ==
  LET odd == OddOf(event, oddID)
  IN  IF odd # Null /\ Truthy(Val(odd).bookOdds)
        THEN Some(JSNumber(Val(odd).bookSpread))
        ELSE Null

\* the line value assigned together with the over price
BookOverUnderOf(event, oddID) ==
  LET odd == OddOf(event, oddID)
  IN  IF odd # Null /\ Truthy(Val(odd).bookOdds)
        THEN Some(JSNumber(Val(odd).bookOverUnder))
        ELSE Null

returnObject(event) ==
  [ event_id          |-> event.eventID,
    home_team_id      |-> event.homeTeamID,
    away_team_id      |-> event.awayTeamID,
    start_date        |-> event.startsAt,
    home_moneyline    |-> BookOddsOf(event, "points-home-game-ml-home"),
    away_moneyline    |-> BookOddsOf(event, "points-away-game-ml-away"),
    home_spread_value |-> BookSpreadOf(event, "points-home-game-sp-home"),
    home_spread_odds  |-> BookOddsOf(event, "points-home-game-sp-home"),
    away_spread_odds  |-> BookOddsOf(event, "points-away-game-sp-away"),
    ou_value          |-> BookOverUnderOf(event, "points-all-game-ou-over"),
    ou_over_odds      |-> BookOddsOf(event, "points-all-game-ou-over"),
    ou_under_odds     |-> BookOddsOf(event, "points-all-game-ou-under") ]

RowFields == { "event_id", "home_team_id", "away_team_id", "start_date",
               "home_moneyline", "away_moneyline", "home_spread_value",
               "home_spread_odds", "away_spread_odds", "ou_value",
               "ou_over_odds", "ou_under_odds" }
RequiredBySpec == { "event_id", "home_team_id", "away_team_id", "start_date",
                    "home_moneyline", "away_moneyline" }

\* acceptance on the six fields the specification calls required only
AllDefinedRequiredOnly(row) == \A f \in RequiredBySpec : row[f] # Null

\* Object.values(returnObject).every(v => v !== undefined && v !== null)
AllDefined(row) == \A f \in RowFields : row[f] # Null

\* Null stands for the undefined a rejected event returns
transformEventToRow(event) ==
  LET row == returnObject(event)
  IN  IF AllDefined(row) THEN Some(row) ELSE Null

(***************************************************************************)
(* Raw events of the normalizer's check                                    *)
(***************************************************************************)
Quote(price, spread, overUnder) ==
  Some([ bookOdds |-> price, bookSpread |-> spread, bookOverUnder |-> overUnder ])
MoneylineQuotes ==
  { Null } \cup { Quote(t, "undefined", "undefined") :
                    t \in { "undefined", "0", "-150", "'0'", "'+130'", "'abc'" } }
HomeSpreadQuotes ==
  { Null } \cup { Quote(t, l, "undefined") :
                    t \in { "0", "'-110'" }, l \in { "undefined", "'-3.5'" } }
OverQuotes ==
  { Null } \cup { Quote(t, "undefined", l) :
                    t \in { "0", "'-110'" }, l \in { "null", "44.5" } }
OtherQuotes ==
  { Null } \cup { Quote(t, "undefined", "undefined") : t \in { "0", "'-110'" } }
OddsMaps ==
  { [ k \in OddIDs |->
        CASE k = "points-home-game-ml-home" -> hm
          [] k = "points-away-game-ml-away" -> am
          [] k = "points-home-game-sp-home" -> hs
          [] k = "points-away-game-sp-away" -> as
          [] k = "points-all-game-ou-over"  -> ov
          [] k = "points-all-game-ou-under" -> un ] :
      hm \in MoneylineQuotes, am \in MoneylineQuotes, hs \in HomeSpreadQuotes,
      as \in OtherQuotes, ov \in OverQuotes, un \in OtherQuotes }
NoOdds == [ k \in OddIDs |-> Null ]
\* an event without an odds object, or with one
RawEvents ==
  [ eventID : { Null, Some("E1") },
    homeTeamID : { Null, Some("T1") },
    awayTeamID : { Null, Some("T2") },
    startsAt : { Null, Some("2025-12-01T18:00:00.000Z") },
    hasOdds : { FALSE }, odds : { NoOdds } ]
  \cup
  [ eventID : { Null, Some("E1") },
    homeTeamID : { Null, Some("T1") },
    awayTeamID : { Null, Some("T2") },
    startsAt : { Null, Some("2025-12-01T18:00:00.000Z") },
    hasOdds : { TRUE }, odds : OddsMaps ]

(***************************************************************************)
(* Daily sync job: the stores, the provider and the data of its check      *)
(***************************************************************************)
NumBets == 2
MaxRuns == 2

BetIds == 1..NumBets
EventIds == { "E1", "E2" }

\* the wagers placed before the job runs; event_id may be null
BetTemplates ==
  { [ event_id |-> Some("E1"), bet_type |-> "moneyline", selection |-> "T1",
      spread_value |-> Null, total_value |-> Null ],
    [ event_id |-> Some("E1"), bet_type |-> "spread", selection |-> "T2",
      spread_value |-> Some(0 - Pt(1)), total_value |-> Null ],
    [ event_id |-> Some("E1"), bet_type |-> "over_under", selection |-> "over",
      spread_value |-> Null, total_value |-> Some(1) ],
    [ event_id |-> Some("E1"), bet_type |-> "spread", selection |-> "T1",
      spread_value |-> Some(0), total_value |-> Null ],
    [ event_id |-> Some("E2"), bet_type |-> "moneyline", selection |-> "T2",
      spread_value |-> Null, total_value |-> Null ],
    [ event_id |-> Null, bet_type |-> "moneyline", selection |-> "T1",
      spread_value |-> Null, total_value |-> Null ] }

NewBet(t) ==
  [ event_id |-> t.event_id, bet_type |-> t.bet_type, selection |-> t.selection,
    home_team_id |-> "T1", away_team_id |-> "T2",
    spread_value |-> t.spread_value, total_value |-> t.total_value,
    result |-> Null ]

\* what the provider may hold for one event of a results query: nothing, an
\* event still running, an ended event lacking a score, or a final score
RawResults ==
  { Null,
    Some([ homeScore |-> Some(Pt(1)), awayScore |-> Some(0), ended |-> FALSE ]),
    Some([ homeScore |-> Null, awayScore |-> Some(0), ended |-> TRUE ]),
    Some([ homeScore |-> Some(0), awayScore |-> Some(0), ended |-> TRUE ]),
    Some([ homeScore |-> Some(Pt(1)), awayScore |-> Some(0), ended |-> TRUE ]),
    Some([ homeScore |-> Some(0), awayScore |-> Some(Pt(1)), ended |-> TRUE ]) }

NoData == [ e \in EventIds |-> Null ]
NoResponse == [ status |-> "none", data |-> NoData ]

\* the provider's answers to a query for eventIds: only those events
ResultResponses(eventIds) ==
  { d \in [ EventIds -> RawResults ] : \A e \in EventIds \ eventIds : d[e] = Null }

\* the events the provider may return to the window query
FullOdds ==
  [ k \in OddIDs |->
      CASE k = "points-home-game-sp-home" -> Quote("'-110'", "'-3.5'", "undefined")
        [] k = "points-all-game-ou-over"  -> Quote("'-110'", "undefined", "44.5")
        [] k = "points-home-game-ml-home" -> Quote("-150", "undefined", "undefined")
        [] OTHER -> Quote("'+130'", "undefined", "undefined") ]
MoneylineOnlyOdds ==
  [ k \in OddIDs |->
      CASE k = "points-home-game-ml-home" -> Quote("-150", "undefined", "undefined")
        [] k = "points-away-game-ml-away" -> Quote("'+130'", "undefined", "undefined")
        [] OTHER -> Null ]
UpcomingCatalog ==
  { [ eventID |-> Some("E3"), homeTeamID |-> Some("T1"), awayTeamID |-> Some("T2"),
      startsAt |-> Some("2025-12-01T18:00:00.000Z"),
      hasOdds |-> TRUE, odds |-> FullOdds ],
    [ eventID |-> Some("E4"), homeTeamID |-> Some("T1"), awayTeamID |-> Some("T2"),
      startsAt |-> Some("2025-12-01T18:00:00.000Z"),
      hasOdds |-> TRUE, odds |-> MoneylineOnlyOdds ] }

\* the elements of a set of numbers as a sequence in ascending order
Ascending(S) ==
  CHOOSE q \in [ 1..Cardinality(S) -> S ] :
    \A i, j \in 1..Cardinality(S) : i < j => q[i] < q[j]

\* erroneously every bet, settled or not
AllBetIds(b) == DOMAIN b

\* supabase.from("bets").select("*").is("result", null)
UnsettledIds(b) == { id \in DOMAIN b : b[id].result = Null }

\* [...new Set(bets.map(bet => bet.event_id))].filter(id => id != null)
DistinctEventIds(b, ids) ==
  { e \in EventIds : \E id \in ids : b[id].event_id = Some(e) }

\* the truthiness test of an earlier revision: a score of 0 taken as missing
HasFinalScoreTruthy(raw) ==
  /\ raw.homeScore # Null /\ Val(raw.homeScore) # 0
  /\ raw.awayScore # Null /\ Val(raw.awayScore) # 0
  /\ raw.ended

\* the scores alone, whether or not the event has ended
HasFinalScoreIgnoringEnded(raw) ==
  raw.homeScore # Null /\ raw.awayScore # Null

\* homeScore != null && awayScore != null && ended
HasFinalScore(raw) ==
  raw.homeScore # Null /\ raw.awayScore # Null /\ raw.ended

\* the Map fetchEventResults builds from response.data
ResultsOf(data) ==
  [ e \in EventIds |->
      IF data[e] # Null /\ HasFinalScore(Val(data[e]))
        THEN Some([ homeScore |-> Val(Val(data[e]).homeScore),
                    awayScore |-> Val(Val(data[e]).awayScore) ])
        ELSE Null ]

\* eventResults.get(bet.event_id)
ResultFor(results, bet) ==
  IF bet.event_id = Null THEN Null ELSE results[Val(bet.event_id)]

\* calculateBetResult on a bet row and the scores of its event
BetResult(bet, result) ==
  calculateBetResult(bet.bet_type, bet.selection, bet.home_team_id,
                     bet.away_team_id, result.homeScore, result.awayScore,
                     bet.spread_value, bet.total_value)

\* events.map(transformEventToRow).filter(event => !!event)
RowsOf(evs) ==
  { Val(transformEventToRow(e)) : e \in { x \in evs : transformEventToRow(x) # Null } }

(***************************************************************************)
(* State                                                                   *)
(***************************************************************************)
VARIABLES
  sIn,    \* settlement engine: the arguments of one call
  sOut,   \* settlement engine: << >> before the call, << result >> after
  dIn,    \* date-utils: the Date argument
  dLower, \* date-utils: Null, or the ISO string get24HoursFromDate returned
  dUpper, \* date-utils: Null, or the ISO string getEndOfCurrentNFLWeek returned
  oIn,    \* normalizer: the raw event
  oOut,   \* normalizer: << >> before the call, << row or Null >> after
  bets,          \* store: the bets table, bet id -> row
  upcoming,      \* store: the rows of the upcoming_events table
  pc,            \* job: the await the invocation stands at, or its exit
  runs,          \* job: invocations started so far
  events,        \* syncUpcomingEvents: the events fetchUpcomingEvents returned
  pending,       \* syncEventResults: betsWithoutResults, as bet ids in row order
  eventResults,  \* syncEventResults: the Map fetchEventResults returned
  idx,           \* syncEventResults: position of the for loop in pending
  updatedCount,  \* syncEventResults: updatedCount
  response,      \* history: what the provider answered to this run's results query
  queries,       \* history: the eventIDs of each results query of this run
  issued,        \* history: the bet updates this run sent to the store
  upcoming0,     \* history: the rows of upcoming_events when this run started
  failedLast,    \* history: the bets whose update failed in the previous run
  env,           \* order check: what the stores and the provider will answer
  bets0          \* order check: the bets table when the invocation started

settleVars == << sIn, sOut >>
dateVars == << dIn, dLower, dUpper >>
oddsVars == << oIn, oOut >>
jobVars == << bets, upcoming, pc, runs, events, pending, eventResults, idx,
             updatedCount, response, queries, issued, upcoming0, failedLast >>
orderVars == << env, bets0 >>
vars == << sIn, sOut, dIn, dLower, dUpper, oIn, oOut, bets, upcoming, pc, runs,
           events, pending, eventResults, idx, updatedCount, response, queries,
           issued, upcoming0, failedLast, env, bets0 >>

SettleInputs ==
  [ betType : BetTypes, selection : Selections,
    homeTeamId : TeamIds, awayTeamId : TeamIds,
    homeScore : Scores, awayScore : Scores,
    spreadValue : LineValues, totalValue : LineValues ]

SettleIdle == [ betType |-> "moneyline", selection |-> "T1",
                homeTeamId |-> "T1", awayTeamId |-> "T2",
                homeScore |-> 0, awayScore |-> 0,
                spreadValue |-> Null, totalValue |-> Null ]

DateIdle == [ day |-> FirstDay, ms |-> 0 ]
SettleIdleState == sIn = SettleIdle /\ sOut = << >>
DateIdleState == dIn = DateIdle /\ dLower = Null /\ dUpper = Null
OddsIdle == [ eventID |-> Null, homeTeamID |-> Null, awayTeamID |-> Null,
              startsAt |-> Null, hasOdds |-> FALSE, odds |-> NoOdds ]
OddsIdleState == oIn = OddsIdle /\ oOut = << >>
\* the locals of an invocation before it starts
JobLocalsInit ==
  /\ events = { }
  /\ pending = << >>
  /\ eventResults = NoData
  /\ idx = 0
  /\ updatedCount = 0
  /\ response = NoResponse
  /\ queries = << >>
  /\ issued = { }
  /\ upcoming0 = { }
  /\ failedLast = { }
\* the answers of an environment in which nothing fails and nothing is found
EnvIdle ==
  [ clearOk |-> TRUE, eventsOk |-> TRUE, events |-> { }, insertOk |-> TRUE,
    selectOk |-> TRUE, results |-> [ status |-> "ok", data |-> NoData ],
    updateOk |-> [ id \in BetIds |-> TRUE ] ]
OrderIdleState == env = EnvIdle /\ bets0 = << >>
JobIdleState ==
  /\ bets = [ id \in BetIds |-> NewBet(CHOOSE t \in BetTemplates : t.event_id = Null) ]
  /\ upcoming = { }
  /\ pc = "idle"
  /\ runs = 0
  /\ JobLocalsInit
  /\ OrderIdleState

(***************************************************************************)
(* SpecSettle: calculateBetResult applied to every bounded input           *)
(***************************************************************************)
SettleInit ==
  /\ sIn \in SettleInputs
  /\ sOut = << >>
  /\ DateIdleState /\ OddsIdleState /\ JobIdleState

Settle ==
  /\ sOut = << >>
  /\ sOut' = << calculateBetResult(sIn.betType, sIn.selection, sIn.homeTeamId,
                                   sIn.awayTeamId, sIn.homeScore, sIn.awayScore,
                                   sIn.spreadValue, sIn.totalValue) >>
  /\ UNCHANGED << sIn, dateVars, oddsVars, jobVars, orderVars >>

SettleNext == Settle

SpecSettle == SettleInit /\ [][SettleNext]_vars

(***************************************************************************)
(* SpecDate: the two window bounds computed for every bounded Date         *)
(***************************************************************************)
DateInit ==
  /\ dIn \in InputDates
  /\ dLower = Null
  /\ dUpper = Null
  /\ SettleIdleState /\ OddsIdleState /\ JobIdleState

LowerBound ==
  /\ dLower = Null
  /\ dLower' = Some(get24HoursFromDate(dIn))
  /\ UNCHANGED << dIn, dUpper, settleVars, oddsVars, jobVars, orderVars >>

UpperBound ==
  /\ dUpper = Null
  /\ dUpper' = Some(getEndOfCurrentNFLWeek(dIn))
  /\ UNCHANGED << dIn, dLower, settleVars, oddsVars, jobVars, orderVars >>

DateNext == LowerBound \/ UpperBound

SpecDate == DateInit /\ [][DateNext]_vars

(***************************************************************************)
(* SpecOdds: transformEventToRow applied to every bounded raw event        *)
(***************************************************************************)
OddsInit ==
  /\ oIn \in RawEvents
  /\ oOut = << >>
  /\ SettleIdleState /\ DateIdleState /\ JobIdleState

Transform ==
  /\ oOut = << >>
  /\ oOut' = << transformEventToRow(oIn) >>
  /\ UNCHANGED << oIn, settleVars, dateVars, jobVars, orderVars >>

OddsNext == Transform

SpecOdds == OddsInit /\ [][OddsNext]_vars

(***************************************************************************)
(* Spec: invocations of the daily sync job, main()                         *)
(***************************************************************************)
pureVars == << settleVars, dateVars, oddsVars >>
otherVars == << pureVars, orderVars >>

Init ==
  /\ bets \in { [ id \in BetIds |-> NewBet(t[id]) ] : t \in [ BetIds -> BetTemplates ] }
  /\ upcoming = { }
  /\ pc = "idle"
  /\ runs = 0
  /\ JobLocalsInit
  /\ SettleIdleState /\ DateIdleState /\ OddsIdleState /\ OrderIdleState

\* the scheduler starts main(); the previous invocation has exited
StartJob ==
  /\ pc \in { "idle", "exit0", "exit1" }
  /\ runs < MaxRuns
  /\ runs' = runs + 1
  /\ pc' = "clear"
  /\ events' = { }
  /\ pending' = << >>
  /\ eventResults' = NoData
  /\ idx' = 0
  /\ updatedCount' = 0
  /\ response' = NoResponse
  /\ queries' = << >>
  /\ issued' = { }
  /\ upcoming0' = upcoming
  /\ failedLast' = { u.id : u \in { x \in issued : ~ x.ok } }
  /\ UNCHANGED << bets, upcoming, otherVars >>

\* the delete fails and the rows stay, yet the sync goes on
ClearUpcomingKeepsRows(ok) ==
  /\ pc = "clear"
  /\ pc' = IF ok THEN "fetchEvents" ELSE "exit1"
  /\ UNCHANGED << upcoming, bets, runs, events, pending, eventResults, idx,
                  updatedCount, response, queries, issued, upcoming0,
                  failedLast, otherVars >>

\* the deleteError is logged and swallowed, and main goes on to the results
ClearUpcomingSwallowsError(ok) ==
  /\ pc = "clear"
  /\ IF ok THEN upcoming' = { } /\ pc' = "fetchEvents"
           ELSE pc' = "select" /\ UNCHANGED upcoming
  /\ UNCHANGED << bets, runs, events, pending, eventResults, idx, updatedCount,
                  response, queries, issued, upcoming0, failedLast, otherVars >>

\* syncUpcomingEvents: delete every row of upcoming_events; ok: no deleteError
ClearUpcomingWith(ok) ==
  /\ pc = "clear"
  /\ IF ok THEN /\ upcoming' = { }
                /\ pc' = "fetchEvents"
           ELSE /\ pc' = "exit1"              \* deleteError: thrown up to main
                /\ UNCHANGED upcoming
  /\ UNCHANGED << bets, runs, events, pending, eventResults, idx, updatedCount,
                  response, queries, issued, upcoming0, failedLast, otherVars >>

ClearUpcoming == \E ok \in BOOLEAN : ClearUpcomingWith(ok)

\* syncUpcomingEvents: fetchUpcomingEvents and the empty-list return;
\* ok: the provider call does not throw, evs: response.data
FetchUpcomingEventsWith(ok, evs) ==
  /\ pc = "fetchEvents"
  /\ IF ok THEN /\ events' = evs
                /\ pc' = IF evs = { } THEN "select" ELSE "insert"
           ELSE /\ pc' = "exit1"              \* provider error: rethrown
                /\ UNCHANGED events
  /\ UNCHANGED << bets, upcoming, runs, pending, eventResults, idx, updatedCount,
                  response, queries, issued, upcoming0, failedLast, otherVars >>

FetchUpcomingEvents ==
  \E ok \in BOOLEAN, evs \in SUBSET UpcomingCatalog : FetchUpcomingEventsWith(ok, evs)

\* syncUpcomingEvents: transform, filter and insert the rows; ok: no insertError
InsertUpcomingWith(ok) ==
  /\ pc = "insert"
  /\ IF ok THEN /\ upcoming' = upcoming \cup RowsOf(events)
                /\ pc' = "select"
           ELSE /\ pc' = "exit1"              \* insertError: thrown up to main
                /\ UNCHANGED upcoming
  /\ UNCHANGED << bets, runs, events, pending, eventResults, idx, updatedCount,
                  response, queries, issued, upcoming0, failedLast, otherVars >>

InsertUpcoming == \E ok \in BOOLEAN : InsertUpcomingWith(ok)

\* syncEventResults: select the bets whose result is null; ok: no fetchError.
\* syncUpcomingEvents has returned: its events are out of scope
SelectBetsWith(ok) ==
  /\ pc = "select"
  /\ IF ok THEN /\ pending' = Ascending(UnsettledIds(bets))
                /\ pc' = IF UnsettledIds(bets) = { } THEN "exit0" ELSE "fetchResults"
           ELSE /\ pc' = "exit1"              \* fetchError: thrown up to main
                /\ UNCHANGED pending
  /\ events' = { }
  /\ upcoming0' = { }
  /\ UNCHANGED << bets, upcoming, runs, eventResults, idx, updatedCount,
                  response, queries, issued, failedLast, otherVars >>

SelectBets == \E ok \in BOOLEAN : SelectBetsWith(ok)

\* syncEventResults: the distinct event ids of betsWithoutResults
QueryEventIds == DistinctEventIds(bets, { pending[k] : k \in 1..Len(pending) })

\* what the provider call may do when asked for eventIds: answer, or throw
ProviderAnswers(eventIds) ==
  { [ status |-> "ok", data |-> d ] : d \in ResultResponses(eventIds) }
    \cup { [ status |-> "error", data |-> NoData ] }

\* the provider error is not caught: it is thrown up to main
FetchEventResultsRethrows(resp) ==
  /\ pc = "fetchResults"
  /\ LET eventIds == QueryEventIds
     IN  IF eventIds = { }
           THEN /\ eventResults' = NoData /\ pc' = "loop"
                /\ UNCHANGED << response, queries >>
           ELSE /\ queries' = Append(queries, eventIds)
                /\ response' = resp
                /\ eventResults' = ResultsOf(resp.data)
                /\ pc' = IF resp.status = "ok" THEN "loop" ELSE "exit1"
  /\ idx' = 1
  /\ UNCHANGED << bets, upcoming, runs, events, pending, updatedCount, issued,
                  upcoming0, failedLast, otherVars >>

\* syncEventResults: fetchEventResults(eventIds); resp: the provider's answer
\* to the query, or its failure
FetchEventResultsWith(resp) ==
  /\ pc = "fetchResults"
  /\ LET eventIds == QueryEventIds
     IN  IF eventIds = { }
           THEN /\ eventResults' = NoData          \* no provider call
                /\ UNCHANGED << response, queries >>
           ELSE /\ queries' = Append(queries, eventIds)
                /\ response' = resp
                \* an error is caught: the empty Map
                /\ eventResults' = ResultsOf(resp.data)
  /\ idx' = 1
  /\ pc' = "loop"
  /\ UNCHANGED << bets, upcoming, runs, events, pending, updatedCount, issued,
                  upcoming0, failedLast, otherVars >>

FetchEventResults == \E resp \in ProviderAnswers(QueryEventIds) : FetchEventResultsWith(resp)

\* an updateError is thrown up to main instead of being logged
ProcessBetThrowsOnUpdateError(ok) ==
  /\ pc = "loop"
  /\ idx <= Len(pending)
  /\ LET id == pending[idx]
         bet == bets[id]
         result == ResultFor(eventResults, bet)
         betResult == IF result = Null THEN Null ELSE BetResult(bet, Val(result))
     IN  IF result = Null \/ betResult = Null
           THEN UNCHANGED << bets, updatedCount, issued, pc >>
           ELSE /\ issued' = issued \cup
                     { [ id |-> id, value |-> Val(betResult),
                         stored |-> bet.result, ok |-> ok ] }
                /\ IF ok
                     THEN /\ bets' = [ bets EXCEPT ![id].result = betResult ]
                          /\ updatedCount' = updatedCount + 1
                          /\ UNCHANGED pc
                     ELSE /\ pc' = "exit1"
                          /\ UNCHANGED << bets, updatedCount >>
  /\ idx' = idx + 1
  /\ UNCHANGED << upcoming, runs, events, pending, eventResults, response,
                  queries, upcoming0, failedLast, otherVars >>

\* syncEventResults: one iteration of the loop over betsWithoutResults;
\* ok: the update, if one is sent, has no updateError
ProcessBetWith(ok) ==
  /\ pc = "loop"
  /\ idx <= Len(pending)
  /\ LET id == pending[idx]
         bet == bets[id]
         result == ResultFor(eventResults, bet)
         betResult == IF result = Null THEN Null ELSE BetResult(bet, Val(result))
     IN  IF result = Null \/ betResult = Null
           THEN UNCHANGED << bets, updatedCount, issued >>          \* continue
           ELSE /\ issued' = issued \cup
                     { [ id |-> id, value |-> Val(betResult),
                         stored |-> bet.result, ok |-> ok ] }
                /\ IF ok
                     THEN /\ bets' = [ bets EXCEPT ![id].result = betResult ]
                          /\ updatedCount' = updatedCount + 1
                     ELSE UNCHANGED << bets, updatedCount >>   \* updateError
  /\ idx' = idx + 1
  /\ UNCHANGED << upcoming, pc, runs, events, pending, eventResults, response,
                  queries, upcoming0, failedLast, otherVars >>

ProcessBet == \E ok \in BOOLEAN : ProcessBetWith(ok)

\* syncEventResults returns and main exits with status 0
FinishJob ==
  /\ pc = "loop"
  /\ idx > Len(pending)
  /\ pc' = "exit0"
  /\ UNCHANGED << bets, upcoming, runs, events, pending, eventResults, idx,
                  updatedCount, response, queries, issued, upcoming0,
                  failedLast, otherVars >>

Next ==
  \/ StartJob
  \/ ClearUpcoming
  \/ FetchUpcomingEvents
  \/ InsertUpcoming
  \/ SelectBets
  \/ FetchEventResults
  \/ ProcessBet
  \/ FinishJob

Spec == Init /\ [][Next]_vars

(***************************************************************************)
(* One invocation against a fixed environment (SpecOrder): what the stores *)
(* and the provider will answer is drawn once, so that the outcome of      *)
(* main() can be compared with that of the two phases in the other order   *)
(***************************************************************************)
\* the wagers of the order check: one on each event, one without an event
OrderTemplates ==
  { [ event_id |-> Some("E1"), bet_type |-> "moneyline", selection |-> "T1",
      spread_value |-> Null, total_value |-> Null ],
    [ event_id |-> Some("E2"), bet_type |-> "spread", selection |-> "T2",
      spread_value |-> Some(Pt(1)), total_value |-> Null ],
    [ event_id |-> Null, bet_type |-> "moneyline", selection |-> "T1",
      spread_value |-> Null, total_value |-> Null ] }
\* what the provider holds for one event: nothing, a running event, a final
OrderResults ==
  { Null,
    Some([ homeScore |-> Some(Pt(1)), awayScore |-> Some(0), ended |-> FALSE ]),
    Some([ homeScore |-> Some(Pt(1)), awayScore |-> Some(0), ended |-> TRUE ]) }
OrderEnvs ==
  [ clearOk : BOOLEAN, eventsOk : BOOLEAN, events : { { }, UpcomingCatalog },
    insertOk : BOOLEAN, selectOk : BOOLEAN,
    results : { [ status |-> "ok", data |-> d ] : d \in [ EventIds -> OrderResults ] }
                \cup { [ status |-> "error", data |-> NoData ] },
    updateOk : [ BetIds -> BOOLEAN ] ]

\* the provider's answer to a query for eventIds, given what it holds
AnswerTo(held, eventIds) ==
  IF held.status = "ok"
    THEN [ status |-> "ok",
           data |-> [ e \in EventIds |-> IF e \in eventIds THEN held.data[e] ELSE Null ] ]
    ELSE [ status |-> "error", data |-> NoData ]

\* syncEventResults as one step: the bets table it leaves behind when run on
\* table b against environment en
ResultsSyncPass(b, en) ==
  IF ~ en.selectOk
    THEN b                                         \* fetchError: thrown
    ELSE LET ids == UnsettledIds(b)
             answer == AnswerTo(en.results, DistinctEventIds(b, ids))
             results == ResultsOf(answer.data)
             betResult(id) ==
               IF ResultFor(results, b[id]) = Null
                 THEN Null
                 ELSE BetResult(b[id], Val(ResultFor(results, b[id])))
         IN  [ id \in BetIds |->
                 IF id \in ids /\ betResult(id) # Null /\ en.updateOk[id]
                   THEN [ b[id] EXCEPT !.result = betResult(id) ]
                   ELSE b[id] ]

OrderInit ==
  /\ bets \in { [ id \in BetIds |-> NewBet(t[id]) ] : t \in [ BetIds -> OrderTemplates ] }
  /\ bets0 = bets
  /\ env \in OrderEnvs
  /\ upcoming = { }
  /\ pc = "idle"
  /\ runs = 0
  /\ JobLocalsInit
  /\ SettleIdleState /\ DateIdleState /\ OddsIdleState

OrderStart == runs = 0 /\ StartJob
OrderClear == ClearUpcomingWith(env.clearOk)
OrderFetchEvents == FetchUpcomingEventsWith(env.eventsOk, env.events)
OrderInsert == InsertUpcomingWith(env.insertOk)
OrderSelect == SelectBetsWith(env.selectOk)
OrderFetchResults == FetchEventResultsWith(AnswerTo(env.results, QueryEventIds))
OrderProcessBet ==
  /\ pc = "loop"
  /\ idx <= Len(pending)
  /\ ProcessBetWith(env.updateOk[pending[idx]])

OrderNext ==
  \/ OrderStart
  \/ OrderClear
  \/ OrderFetchEvents
  \/ OrderInsert
  \/ OrderSelect
  \/ OrderFetchResults
  \/ OrderProcessBet
  \/ FinishJob

SpecOrder == OrderInit /\ [][OrderNext]_vars

(***************************************************************************)
(* Properties of the job (Spec)                                            *)
(***************************************************************************)
Booleans == { Some(TRUE), Some(FALSE) }
PendingIds == { pending[k] : k \in 1..Len(pending) }
\* the results phase of this invocation has run to its end
PassDone == pc = "exit0" /\ pending # << >>
\* the pending wagers that reference event e
WagersOn(e) == { id \in PendingIds : bets[id].event_id = Some(e) }
\* the provider answered with an ended event e and both of its scores
FetchedFinal(e) ==
  /\ response.status = "ok"
  /\ response.data[e] # Null
  /\ Val(response.data[e]).ended
  /\ Val(response.data[e]).homeScore # Null
  /\ Val(response.data[e]).awayScore # Null
\* settle() of a wager on the scores the provider answered for its event
SettleOnFetched(id, e) ==
  calculateBetResult(bets[id].bet_type, bets[id].selection,
                     bets[id].home_team_id, bets[id].away_team_id,
                     Val(Val(response.data[e]).homeScore),
                     Val(Val(response.data[e]).awayScore),
                     bets[id].spread_value, bets[id].total_value)
UpdateFailed(id) == \E u \in issued : u.id = id /\ ~ u.ok

\* every update sent to the store is for a wager whose stored result is null
IssuedOnlyForUnsettled == \A u \in issued : u.stored = Null
\* a step changes a wager's result only from null, and only to a boolean
OutcomeOnlyFromNull ==
  \A id \in BetIds :
    bets'[id].result # bets[id].result
      => bets[id].result = Null /\ bets'[id].result \in Booleans

\* C1: over any sequence of invocations, failing ones included, a wager's
\* outcome changes only from null to a boolean, at most once: no update is
\* sent for a wager whose stored outcome is already a boolean, and a boolean
\* outcome is never changed afterwards.
C1_OutcomeSettledAtMostOnce ==
  /\ [](IssuedOnlyForUnsettled)
  /\ [][OutcomeOnlyFromNull]_vars

\* a second invocation has settled one wager while another, settled by the
\* first invocation, was not selected again
C1_Witness ==
  /\ runs = 2 /\ pc = "exit0"
  /\ \E id \in BetIds : bets[id].result \in Booleans /\ id \notin PendingIds
  /\ \E u \in issued : u.ok /\ bets[u.id].result = Some(u.value)

\* the provider is queried once, with the distinct event identifiers of the
\* pending wagers, and not at all when there are none
QueriedOnce ==
  queries = IF DistinctEventIds(bets, PendingIds) = { }
              THEN << >>
              ELSE << DistinctEventIds(bets, PendingIds) >>

\* C10 as stated: in one pass, when several unsettled wagers reference the
\* same event, the provider is queried once with the distinct event
\* identifiers (not at all when there are none), and every one of those wagers
\* whose settlement is determinate is updated in that pass from the single
\* fetched result, each with the outcome settle() computes for it.
C10_SharedEventAllUpdated ==
  PassDone
    => /\ QueriedOnce
       /\ \A e \in EventIds :
            (Cardinality(WagersOn(e)) >= 2 /\ FetchedFinal(e))
              => \A id \in WagersOn(e) :
                   SettleOnFetched(id, e) # Null
                     => bets[id].result = SettleOnFetched(id, e)

\* C10, amended: the same, for every one of those wagers whose settlement is
\* determinate and whose store update does not fail.
C10_SharedEventUpdatedUnlessUpdateFails ==
  PassDone
    => /\ QueriedOnce
       /\ \A e \in EventIds :
            (Cardinality(WagersOn(e)) >= 2 /\ FetchedFinal(e))
              => \A id \in WagersOn(e) :
                   (SettleOnFetched(id, e) # Null /\ ~ UpdateFailed(id))
                     => bets[id].result = SettleOnFetched(id, e)

\* a pass has ended in which two wagers on one event were both settled from
\* the one answer to the one query, a final score of 0 to 0
C10_Witness ==
  /\ PassDone /\ Len(queries) = 1
  /\ \E e \in EventIds :
       /\ Cardinality(WagersOn(e)) >= 2 /\ FetchedFinal(e)
       /\ Val(response.data[e]).homeScore = Some(0)
       /\ Val(response.data[e]).awayScore = Some(0)
       /\ \A id \in WagersOn(e) : bets[id].result \in Booleans
       /\ \E a, b \in WagersOn(e) : bets[a].result # bets[b].result

(***************************************************************************)
(* Properties of the settlement engine (SpecSettle)                        *)
(***************************************************************************)
Settled == sOut # << >>
Outcome == sOut[1]
DistinctTeams == sIn.homeTeamId # sIn.awayTeamId

\* C2: for a spread wager with any non-null spread value, zero included, the
\* home selection settles as a win iff homeScore + spreadValue > awayScore and
\* the away selection iff awayScore - spreadValue > homeScore; equality is a
\* loss, never indeterminate.
C2_SpreadBoundaryStrictForEverySpread ==
  (Settled /\ sIn.betType = "spread" /\ DistinctTeams /\ sIn.spreadValue # Null)
    => /\ sIn.selection = sIn.homeTeamId
            => Outcome = Some(sIn.homeScore + Val(sIn.spreadValue) > sIn.awayScore)
       /\ sIn.selection = sIn.awayTeamId
            => Outcome = Some(sIn.awayScore - Val(sIn.spreadValue) > sIn.homeScore)

\* what the code does hold to (C2 away from the zero spread): the same
\* statement for every spread value other than zero
SpreadBoundaryStrictForNonZeroSpread ==
  (Settled /\ sIn.betType = "spread" /\ DistinctTeams
     /\ sIn.spreadValue # Null /\ Val(sIn.spreadValue) # 0)
    => /\ sIn.selection = sIn.homeTeamId
            => Outcome = Some(sIn.homeScore + Val(sIn.spreadValue) > sIn.awayScore)
       /\ sIn.selection = sIn.awayTeamId
            => Outcome = Some(sIn.awayScore - Val(sIn.spreadValue) > sIn.homeScore)

\* a total line value the engine takes as present: not null and not zero
HasTotalLine == sIn.totalValue # Null /\ Val(sIn.totalValue) # 0

C4_MoneylineSidesExclusive ==
  (Settled /\ sIn.betType = "moneyline" /\ DistinctTeams)
    => LET other == IF sIn.selection = sIn.homeTeamId THEN sIn.awayTeamId
                                                      ELSE sIn.homeTeamId
           otherOutcome ==
             calculateBetResult("moneyline", other, sIn.homeTeamId,
                                sIn.awayTeamId, sIn.homeScore, sIn.awayScore,
                                sIn.spreadValue, sIn.totalValue)
       IN  IF sIn.selection \in { sIn.homeTeamId, sIn.awayTeamId }
             THEN /\ Outcome \in { Some(TRUE), Some(FALSE) }
                  /\ otherOutcome \in { Some(TRUE), Some(FALSE) }
                  /\ ~ (Outcome = Some(TRUE) /\ otherOutcome = Some(TRUE))
                  /\ (Outcome = Some(FALSE) /\ otherOutcome = Some(FALSE))
                       <=> sIn.homeScore = sIn.awayScore
             ELSE Outcome = Null

\* a tied moneyline wager on the home team has settled as a loss
C4_Witness ==
  /\ Settled /\ sIn.betType = "moneyline" /\ DistinctTeams
  /\ sIn.selection = sIn.homeTeamId
  /\ sIn.homeScore = sIn.awayScore
  /\ Outcome = Some(FALSE)

(***************************************************************************)
(* Properties of the odds normalizer (SpecOdds)                            *)
(***************************************************************************)
Transformed == oOut # << >>
Row == oOut[1]
Accepted == Row # Null
HasIds ==
  /\ oIn.eventID # Null /\ oIn.startsAt # Null
  /\ oIn.homeTeamID # Null /\ oIn.awayTeamID # Null
SpreadTotalIDs == { "points-home-game-sp-home", "points-away-game-sp-away",
                    "points-all-game-ou-over", "points-all-game-ou-under" }
\* an event whose only quotes are the two moneylines, each with a price
MoneylineOnly ==
  /\ oIn.hasOdds
  /\ \A k \in SpreadTotalIDs : oIn.odds[k] = Null
  /\ \A k \in OddIDs \ SpreadTotalIDs :
       oIn.odds[k] # Null /\ Truthy(Val(oIn.odds[k]).bookOdds)
SpreadTotalFieldsNull(row) ==
  /\ row.home_spread_value = Null /\ row.home_spread_odds = Null
  /\ row.away_spread_odds = Null /\ row.ou_value = Null
  /\ row.ou_over_odds = Null /\ row.ou_under_odds = Null

C6_ZeroPriceIsPresent ==
  ( /\ Transformed /\ HasIds /\ oIn.hasOdds
    /\ \A k \in OddIDs : oIn.odds[k] # Null
    /\ \A k \in OddIDs \ { "points-home-game-ml-home" } :
         Truthy(Val(oIn.odds[k]).bookOdds)
    /\ Val(oIn.odds["points-home-game-ml-home"]).bookOdds = "0" )
    => /\ Accepted
       /\ Val(Row).home_moneyline = Some(Num(0))

(***************************************************************************)
(* Properties of the date window (SpecDate)                                *)
(***************************************************************************)
\* weekday of a day number, 0 = Sunday, counted from FirstDay, the Monday of
\* the date-utils tests
WeekdayOf(day) == (day - FirstDay + 1) % 7
EightAM == 8 * 60 * 60 * 1000
Iso(y, m, d, h, mi) ==
  [ year |-> y, month |-> m, day |-> d, hour |-> h, minute |-> mi,
    second |-> 0, ms |-> 0 ]
At(y, m, d, h, mi) == [ day |-> DaysFromCivil(y, m, d), ms |-> (h * 60 + mi) * 60000 ]
IsEightAM(iso) ==
  iso.hour = 8 /\ iso.minute = 0 /\ iso.second = 0 /\ iso.ms = 0
WellFormedIso(iso) ==
  /\ iso.month \in 1..12 /\ iso.day \in 1..31 /\ iso.hour \in 0..23
  /\ iso.minute \in 0..59 /\ iso.second \in 0..59 /\ iso.ms \in 0..999

C8_OtherDaysNextWednesday ==
  (dUpper # Null /\ WeekdayOf(dIn.day) \in { 0, 1, 4, 5, 6 })
    => LET iso == Val(dUpper)
           r == ParseISO(iso)
           wd == WeekdayOf(dIn.day)
       IN  /\ WellFormedIso(iso) /\ IsEightAM(iso)
           /\ r.ms = EightAM
           /\ r.day - dIn.day = (CASE wd = 1 -> 2 [] wd = 4 -> 6 [] wd = 5 -> 5
                                   [] wd = 6 -> 4 [] wd = 0 -> 3)
           /\ WeekdayOf(r.day) = 3
           /\ \A k \in 1..(r.day - dIn.day - 1) : WeekdayOf(dIn.day + k) # 3
           /\ dIn = At(2025, 11, 24, 10, 0) => iso = Iso(2025, 11, 26, 8, 0)
           /\ dIn = At(2025, 11, 28, 8, 0) => iso = Iso(2025, 12, 3, 8, 0)

\* the bound of a Friday has been computed, five days ahead and in the
\* following month
C8_Witness ==
  /\ dUpper # Null /\ WeekdayOf(dIn.day) = 5
  /\ ParseISO(Val(dUpper)).day = dIn.day + 5
  /\ Val(dUpper).month # CivilFromDays(dIn.day).m

\* C9: the lower bound is the argument plus exactly 24 hours (86,400,000 ms),
\* at the same time of day.
C9_LowerBoundIsPlus24Hours ==
  dLower # Null
    => LET iso == Val(dLower)
           r == ParseISO(iso)
       IN  /\ WellFormedIso(iso)
           /\ (r.day - dIn.day) * 86400000 + (r.ms - dIn.ms) = 86400000
           /\ r.ms = dIn.ms
           /\ iso.hour = dIn.ms \div 3600000
           /\ iso.minute = (dIn.ms \div 60000) % 60
           /\ iso.second = (dIn.ms \div 1000) % 60
           /\ iso.ms = dIn.ms % 1000
           /\ dIn = At(2025, 11, 24, 8, 30) => iso = Iso(2025, 11, 25, 8, 30)

\* the lower bound of the last millisecond of a leap 28 February has been
\* computed: the same millisecond of 29 February
C9_Witness ==
  /\ dLower # Null
  /\ dIn = [ day |-> DaysFromCivil(2024, 2, 28), ms |-> 86399999 ]
  /\ Val(dLower) = [ year |-> 2024, month |-> 2, day |-> 29, hour |-> 23,
                     minute |-> 59, second |-> 59, ms |-> 999 ]


(***************************************************************************)
(* Properties of the event sync (Spec)                                     *)
(***************************************************************************)
\* syncUpcomingEvents of this invocation has returned without throwing
EventSyncDone == pc = "select"
\* the normalized records of the events in which all twelve fields are set
AcceptedRecords(evs) ==
  { returnObject(e) : e \in { x \in evs : \A f \in RowFields : returnObject(x)[f] # Null } }

\* C11: after an Event Sync that completes without throwing, the
\* upcoming-events store holds exactly the accepted normalized records of the
\* events this run's provider query returned (it is empty when the provider
\* returned none), and a row that was in the store before the run remains
\* only if it was inserted again from that query.
C11_EventSyncIsFullReplace ==
  EventSyncDone
    => /\ upcoming = AcceptedRecords(events)
       /\ events = { } => upcoming = { }
       /\ \A r \in upcoming0 : r \in upcoming => r \in AcceptedRecords(events)

\* a second invocation found a row of the first in the store, the provider
\* returned one event, which was rejected, and the store is empty
C11_Witness ==
  /\ EventSyncDone
  /\ runs = 2
  /\ upcoming0 # { }
  /\ events # { }
  /\ AcceptedRecords(events) = { }
  /\ upcoming = { }

(***************************************************************************)
(* Properties of the results sync (Spec)                                   *)
(***************************************************************************)
\* the provider answered the wager's event as ended with both scores
HasFetchedFinal(id) ==
  bets[id].event_id # Null /\ FetchedFinal(Val(bets[id].event_id))
\* every update sent is for a wager whose event was answered as ended with
\* both scores, and carries the determinate outcome settle() computes
UpdatesOnlyFromFinalResult ==
  \A u \in issued :
    /\ HasFetchedFinal(u.id)
    /\ SettleOnFetched(u.id, Val(bets[u.id].event_id)) = Some(u.value)
\* a selected wager whose event is missing from the answer, has not ended or
\* lacks a score has a null outcome
UnresolvedStayNull ==
  \A id \in PendingIds : ~ HasFetchedFinal(id) => bets[id].result = Null

\* C12: Results Sync writes an outcome for an unsettled wager only if the
\* provider's result for its event has ended true and both scores non-null (a
\* score of 0 is present) and settle() is determinate; a wager whose event is
\* missing from the results, has not ended or has a null score has a null
\* outcome after the pass.
C12_OutcomeOnlyFromEndedEventWithScores ==
  /\ UpdatesOnlyFromFinalResult
  /\ UnresolvedStayNull

\* a pass has ended in which one wager was settled from a final result with a
\* score of 0 while another, whose event is missing from the answer, has
\* not ended or lacks a score, stayed null
C12_Witness ==
  /\ PassDone
  /\ \E u \in issued :
       /\ u.ok
       /\ bets[u.id].result = Some(u.value)
       /\ Val(response.data[Val(bets[u.id].event_id)]).awayScore = Some(0)
  /\ \E id \in PendingIds :
       /\ bets[id].event_id # Null
       /\ bets[id].result = Null
       /\ LET raw == response.data[Val(bets[id].event_id)]
          IN  raw = Null \/ ~ Val(raw).ended \/ Val(raw).homeScore = Null

\* the loop has gone past every selected wager
AllProcessed == idx = Len(pending) + 1
\* the wager can be settled from the answer of this pass
Resolvable(id) ==
  /\ HasFetchedFinal(id)
  /\ SettleOnFetched(id, Val(bets[id].event_id)) # Null
\* the positions of the selected wagers that come after a failed update
AfterFailure == { k \in 1..Len(pending) : \E j \in 1..(k - 1) : UpdateFailed(pending[j]) }

\* C13: when the store update of one wager fails, that wager keeps a null
\* outcome, the pass neither aborts nor throws, every later wager of the batch
\* is still processed (an update is sent for it if it is resolvable, and it is
\* updated unless that update fails too), and the next invocation selects the
\* failed wager again as unsettled.
C13_UpdateFailureSkipsOnlyThatWager ==
  /\ \A id \in BetIds : UpdateFailed(id) => bets[id].result = Null
  /\ (\E id \in BetIds : UpdateFailed(id)) => pc \in { "loop", "exit0" }
  /\ PassDone
       => /\ AllProcessed
          /\ \A k \in AfterFailure :
               Resolvable(pending[k])
                 => /\ \E u \in issued : u.id = pending[k]
                    /\ ~ UpdateFailed(pending[k])
                         => bets[pending[k]].result
                              = SettleOnFetched(pending[k], Val(bets[pending[k]].event_id))
  /\ pc \in { "fetchResults", "loop", "exit0" } => failedLast \subseteq PendingIds

\* the update of a wager failed in the first invocation, which went on to
\* settle a later wager; the second invocation selected the failed wager
\* again, without the later one, and has settled it
C13_Witness ==
  /\ runs = 2
  /\ pc = "exit0"
  /\ \E id1 \in failedLast, id2 \in BetIds :
       /\ id2 > id1
       /\ id2 \notin PendingIds
       /\ bets[id2].result \in Booleans
       /\ id1 \in PendingIds
       /\ bets[id1].result \in Booleans

\* in the running pass an update has failed and a later wager was updated
C13_WitnessLaterUpdated ==
  /\ PassDone
  /\ \E k \in AfterFailure : \E u \in issued : u.id = pending[k] /\ u.ok

\* the provider call for the final results of this pass has failed
ResultsFetchFailed == response.status = "error"

\* C14: when the provider call that fetches final results fails, the failure
\* is caught and taken as no results: no update is sent and no outcome is
\* written in that pass, every selected wager stays null, and the phase runs
\* to its end without throwing, so that the invocation exits with status 0.
C14_ResultsFetchFailureSettlesNothing ==
  ResultsFetchFailed
    => /\ pc \in { "loop", "exit0" }
       /\ pc = "loop" => ENABLED (ProcessBet \/ FinishJob)
       /\ eventResults = NoData
       /\ issued = { }
       /\ updatedCount = 0
       /\ \A id \in PendingIds : bets[id].result = Null

\* the provider call failed in a pass over every wager, and the
\* invocation has exited with status 0 with all of them null
C14_Witness ==
  /\ ResultsFetchFailed
  /\ pc = "exit0"
  /\ Len(pending) = NumBets
  /\ \A id \in PendingIds : bets[id].result = Null /\ bets[id].event_id # Null

(***************************************************************************)
(* Order of the two phases (SpecOrder)                                     *)
(***************************************************************************)
\* main() has exited
Exited == pc \in { "exit0", "exit1" }
\* the outcomes a bets table holds
Outcomes(b) == [ id \in BetIds |-> b[id].result ]
\* the outcomes persisted when syncEventResults runs first: syncUpcomingEvents
\* writes to upcoming_events only, whether it runs, throws, or is not reached
ResultsFirstOutcomes == Outcomes(ResultsSyncPass(bets0, env))
\* the environment makes syncUpcomingEvents throw
EventSyncThrows ==
  \/ ~ env.clearOk
  \/ ~ env.eventsOk
  \/ env.events # { } /\ ~ env.insertOk

\* C15 as stated: for every behaviour of the provider and the store, a
\* failing clear, a failing events query and a failing insert included, the
\* outcomes one invocation persists are those it would persist with the two
\* phases in the other order.
C15_OutcomesSameWhicheverPhaseRunsFirst ==
  Exited => Outcomes(bets) = ResultsFirstOutcomes

\* C15, amended: when Event Sync does not throw, the outcomes one invocation
\* persists are those it would persist with Results Sync first; when Event
\* Sync throws, the invocation exits with status 1 before Results Sync runs
\* and persists no outcome.
C15_OutcomesSameUnlessEventSyncThrows ==
  Exited
    => IF EventSyncThrows
         THEN pc = "exit1" /\ pending = << >> /\ bets = bets0
         ELSE Outcomes(bets) = ResultsFirstOutcomes

\* Event Sync inserted rows and Results Sync then settled a wager while the
\* update of another failed: the outcomes are those of the other order
C15_Witness ==
  /\ pc = "exit0"
  /\ ~ EventSyncThrows
  /\ upcoming # { }
  /\ \E id \in BetIds : bets[id].result \in Booleans
  /\ \E id \in BetIds : UpdateFailed(id)
  /\ Outcomes(bets) = ResultsFirstOutcomes

\* the clear failed and the invocation exited with status 1, leaving null a
\* wager that Results Sync, run first, would have settled
C15_WitnessEventSyncThrows ==
  /\ pc = "exit1"
  /\ ~ env.clearOk
  /\ \E id \in BetIds : bets[id].result = Null /\ ResultsFirstOutcomes[id] \in Booleans

====
